---- MODULE Spec2Model ----
(***************************************************************************)
(* Access-control and delegation engine of the course marketplace:         *)
(* the HTTP handlers of server/routes.ts over the in-memory MemStorage.    *)
(* Every handler is one atomic action (a single request served alone);     *)
(* the maps of MemStorage are sequences indexed by their auto-increment    *)
(* ids, which start at 1 and are never deleted.                            *)
(***************************************************************************)
EXTENDS Integers, Sequences, FiniteSets, TLC

\* ---------------------------------------------------------------- bounds
MaxUsers == 1
MaxCourses == 1
MaxOwnerships == 2
MaxAccesses == 2
MaxRequests == 1
MaxClock == 1
\* users a wallet connection may create where wallets are what is explored
MaxWallets == 2
\* callers whose requests may be in flight at the same time
MaxCallers == 2
\* courses in the specification of the access check over several courses
MaxCatalog == 2
\* requests in the specification of the request workflow
MaxWorkflowRequests == 2

\* ------------------------------------------------------------- constants
\* the duration range the request form accepts (days)
MinDuration == 1
MaxDuration == 90

\* ---------------------------------------------------------------- inputs
\* wallet addresses are strings, modelled as sequences of character codes:
\* "0xa", "0xA" and "0xb"
Addresses == { <<48, 120, 97>>, <<48, 120, 65>>, <<48, 120, 98>> }
\* a user without wallet has walletAddress null
Null == << >>
\* requestDuration values a caller may post (days)
DurationInputs == {0, 1}
\* expiresAt values a caller may post to /api/access/share (days on the clock)
ExpiryInputs == 1 .. (MaxClock + 1)
\* status values a caller may post
StatusInputs == {"pending", "approved", "rejected", "reopened"}
\* ids a caller may name; an id names no record until the record is created
UserIds == 1 .. MaxUsers
\* owner ids a caller may post to /api/nft/mint: the handler does not look the user up
OwnerIds == 1 .. (MaxUsers + 1)
\* user ids where wallet connections create up to MaxWallets users
WalletUserIds == 1 .. MaxWallets
CourseIds == 1 .. MaxCourses
CatalogIds == 1 .. MaxCatalog
OwnershipIds == 1 .. MaxOwnerships
AccessIds == 1 .. MaxAccesses
RequestIds == 1 .. MaxRequests
WorkflowRequestIds == 1 .. MaxWorkflowRequests
Callers == 1 .. MaxCallers

VARIABLES
    users,              \* MemStorage.users: id -> [walletAddress]
    courses,            \* MemStorage.courses: id -> [id]
    ownerships,         \* MemStorage.ownerships: id -> [courseId, ownerId]
    temporaryAccesses,  \* MemStorage.temporaryAccesses: id -> [ownershipId, recipientAddress, expiresAt, isActive]
    accessRequests,     \* MemStorage.accessRequests: id -> [courseId, requesterAddress, ownerAddress, requestDuration, status, createdAt, updatedAt]
    now,                \* the clock read by new Date(), in days
    res,                \* the response of the last request: [status, body]
    calls,              \* the requests in flight, one per caller: where the handler stands (pc),
                        \* the body of the request and what the handler has read so far
    observed            \* history, one per caller: the answers the access check in flight would
                        \* have got on each state of the store since it arrived

vars == <<users, courses, ownerships, temporaryAccesses, accessRequests, now, res, calls, observed>>

\* ------------------------------------------------------------- functions
Min(S) == CHOOSE x \in S : \A y \in S : x <= y

\* String.prototype.toLowerCase on a sequence of character codes
ToLowerCase(s) == [i \in DOMAIN s |-> IF s[i] >= 65 /\ s[i] <= 90 THEN s[i] + 32 ELSE s[i]]

Response(status, body) == [status |-> status, body |-> body]

\* a wallet lookup that compares the addresses as they are written
getUserByWalletAddress_CaseSensitive(walletAddress) ==
    LET found == { i \in DOMAIN users :
                     /\ users[i].walletAddress # Null
                     /\ users[i].walletAddress = walletAddress }
    IN  IF found = {} THEN 0 ELSE Min(found)

\* Array.find over a Map in insertion order: the first matching id, 0 for undefined
getUserByWalletAddress(walletAddress) ==
    LET found == { i \in DOMAIN users :
                     /\ users[i].walletAddress # Null
                     /\ ToLowerCase(users[i].walletAddress) = ToLowerCase(walletAddress) }
    IN  IF found = {} THEN 0 ELSE Min(found)

getCourse(id) == IF id \in DOMAIN courses THEN id ELSE 0

getNftOwnership(id) == IF id \in DOMAIN ownerships THEN id ELSE 0

\* a lookup that compares the record id where it should compare ownerId
getNftOwnershipByCourseAndOwner_ById(courseId, ownerId) ==
    LET found == { i \in DOMAIN ownerships :
                     ownerships[i].courseId = courseId /\ i = ownerId }
    IN  IF found = {} THEN 0 ELSE Min(found)

getNftOwnershipByCourseAndOwner(courseId, ownerId) ==
    LET found == { i \in DOMAIN ownerships :
                     ownerships[i].courseId = courseId /\ ownerships[i].ownerId = ownerId }
    IN  IF found = {} THEN 0 ELSE Min(found)

\* a duplicate check that forgets isActive
getActiveTemporaryAccess_IgnoreActive(ownershipId, recipientAddress) ==
    LET found == { i \in DOMAIN temporaryAccesses :
                     /\ temporaryAccesses[i].ownershipId = ownershipId
                     /\ ToLowerCase(temporaryAccesses[i].recipientAddress) = ToLowerCase(recipientAddress)
                     /\ temporaryAccesses[i].expiresAt > now }
    IN  IF found = {} THEN 0 ELSE Min(found)

getActiveTemporaryAccess(ownershipId, recipientAddress) ==
    LET found == { i \in DOMAIN temporaryAccesses :
                     /\ temporaryAccesses[i].ownershipId = ownershipId
                     /\ ToLowerCase(temporaryAccesses[i].recipientAddress) = ToLowerCase(recipientAddress)
                     /\ temporaryAccesses[i].isActive
                     /\ temporaryAccesses[i].expiresAt > now }
    IN  IF found = {} THEN 0 ELSE Min(found)

\* a grant lookup that takes the grants on the ownerships of every course
checkTemporaryAccess_AnyCourse(courseId, walletAddress) ==
    \E k \in DOMAIN ownerships :
        \E i \in DOMAIN temporaryAccesses :
            /\ temporaryAccesses[i].ownershipId = k
            /\ ToLowerCase(temporaryAccesses[i].recipientAddress) = ToLowerCase(walletAddress)
            /\ temporaryAccesses[i].isActive
            /\ temporaryAccesses[i].expiresAt > now

\* a liveness test that counts a grant as live at expiresAt = now
checkTemporaryAccess_Inclusive(courseId, walletAddress) ==
    \E k \in DOMAIN ownerships :
        /\ ownerships[k].courseId = courseId
        /\ \E i \in DOMAIN temporaryAccesses :
              /\ temporaryAccesses[i].ownershipId = k
              /\ ToLowerCase(temporaryAccesses[i].recipientAddress) = ToLowerCase(walletAddress)
              /\ temporaryAccesses[i].isActive
              /\ temporaryAccesses[i].expiresAt >= now

checkTemporaryAccess(courseId, walletAddress) ==
    \E k \in DOMAIN ownerships :
        /\ ownerships[k].courseId = courseId
        /\ \E i \in DOMAIN temporaryAccesses :
              /\ temporaryAccesses[i].ownershipId = k
              /\ ToLowerCase(temporaryAccesses[i].recipientAddress) = ToLowerCase(walletAddress)
              /\ temporaryAccesses[i].isActive
              /\ temporaryAccesses[i].expiresAt > now

\* an access check that looks for a grant before it looks for the ownership
checkAccess_TemporaryFirst(courseId, walletAddress) ==
    LET normalizedWalletAddress == ToLowerCase(walletAddress)
        user == getUserByWalletAddress(normalizedWalletAddress)
    IN  IF checkTemporaryAccess(courseId, normalizedWalletAddress)
        THEN Response(200, "temporary")
        ELSE IF user # 0 /\ getNftOwnershipByCourseAndOwner(courseId, user) # 0
             THEN Response(200, "owner")
             ELSE Response(200, "noAccess")

\* the body of POST /api/access/check
checkAccess(courseId, walletAddress) ==
    LET normalizedWalletAddress == ToLowerCase(walletAddress)
        user == getUserByWalletAddress(normalizedWalletAddress)
    IN  IF user # 0 /\ getNftOwnershipByCourseAndOwner(courseId, user) # 0
        THEN Response(200, "owner")
        ELSE IF checkTemporaryAccess(courseId, normalizedWalletAddress)
             THEN Response(200, "temporary")
             ELSE Response(200, "noAccess")

\* the ids 1..n in insertion order, the order Map.values() iterates in
Ids(n) == [i \in 1 .. n |-> i]

\* a listing that still shows a grant at the instant it expires
getSharedCoursesForWallet_Inclusive(walletAddress) ==
    LET normalizedWalletAddress == ToLowerCase(walletAddress)
        isListed(i) ==
            /\ ToLowerCase(temporaryAccesses[i].recipientAddress) = normalizedWalletAddress
            /\ temporaryAccesses[i].isActive
            /\ temporaryAccesses[i].expiresAt >= now
            /\ getNftOwnership(temporaryAccesses[i].ownershipId) # 0
            /\ getCourse(ownerships[temporaryAccesses[i].ownershipId].courseId) # 0
        activeAccesses == SelectSeq(Ids(Len(temporaryAccesses)), isListed)
    IN  [n \in DOMAIN activeAccesses |->
            [courseId |-> ownerships[temporaryAccesses[activeAccesses[n]].ownershipId].courseId,
             expiresAt |-> temporaryAccesses[activeAccesses[n]].expiresAt,
             shareId |-> activeAccesses[n]]]

\* MemStorage.getSharedCoursesForWallet: the live grants of the wallet in
\* insertion order, each joined through its ownership to the course; a grant
\* whose ownership or course is missing is skipped
getSharedCoursesForWallet(walletAddress) ==
    LET normalizedWalletAddress == ToLowerCase(walletAddress)
        isListed(i) ==
            /\ ToLowerCase(temporaryAccesses[i].recipientAddress) = normalizedWalletAddress
            /\ temporaryAccesses[i].isActive
            /\ temporaryAccesses[i].expiresAt > now
            /\ getNftOwnership(temporaryAccesses[i].ownershipId) # 0
            /\ getCourse(ownerships[temporaryAccesses[i].ownershipId].courseId) # 0
        activeAccesses == SelectSeq(Ids(Len(temporaryAccesses)), isListed)
    IN  [n \in DOMAIN activeAccesses |->
            [courseId |-> ownerships[temporaryAccesses[activeAccesses[n]].ownershipId].courseId,
             expiresAt |-> temporaryAccesses[activeAccesses[n]].expiresAt,
             shareId |-> activeAccesses[n]]]

\* Array.sort((a, b) => b.createdAt - a.createdAt) on request ids: newest first,
\* requests of the same instant in insertion order (the sort is stable)
sortByCreatedAtDesc(ids) ==
    LET before(m, n) ==
            \/ accessRequests[ids[m]].createdAt > accessRequests[ids[n]].createdAt
            \/ accessRequests[ids[m]].createdAt = accessRequests[ids[n]].createdAt /\ m < n
        place(n) == 1 + Cardinality({ m \in DOMAIN ids : before(m, n) })
    IN  [p \in DOMAIN ids |-> ids[CHOOSE n \in DOMAIN ids : place(n) = p]]

\* the listings of requests join each request to its course and throw when the
\* course does not exist; the handler answers a thrown error with 400
requestListing(ids) ==
    IF \E n \in DOMAIN ids : getCourse(accessRequests[ids[n]].courseId) = 0
    THEN [status |-> 400, message |-> "Course not found for request"]
    ELSE [status |-> 200, requests |-> sortByCreatedAtDesc(ids)]

\* MemStorage.getAccessRequestsByRequester
getAccessRequestsByRequester(requesterAddress) ==
    LET normalizedRequesterAddress == ToLowerCase(requesterAddress)
        isListed(q) == ToLowerCase(accessRequests[q].requesterAddress) = normalizedRequesterAddress
    IN  requestListing(SelectSeq(Ids(Len(accessRequests)), isListed))

\* MemStorage.getAccessRequestsByOwner
getAccessRequestsByOwner(ownerAddress) ==
    LET normalizedOwnerAddress == ToLowerCase(ownerAddress)
        isListed(q) == ToLowerCase(accessRequests[q].ownerAddress) = normalizedOwnerAddress
    IN  requestListing(SelectSeq(Ids(Len(accessRequests)), isListed))

\* a caller without request in flight; status is the answer to its last request
Idle(status) ==
    [pc |-> "idle", courseId |-> 0, ownerId |-> 0, course |-> 0, existingOwnership |-> 0,
     status |-> status]

\* ---------------------------------------------------------------- state
Init ==
    /\ users = << >>
    /\ courses = << >>
    /\ ownerships = << >>
    /\ temporaryAccesses = << >>
    /\ accessRequests = << >>
    /\ now = 0
    /\ res = Response(0, "none")
    /\ calls = [p \in Callers |-> Idle(0)]
    /\ observed = [p \in Callers |-> {}]

\* POST /api/courses
CreateCourse ==
    /\ courses' = Append(courses, [id |-> Len(courses) + 1])
    /\ res' = Response(201, "course")
    /\ UNCHANGED <<users, ownerships, temporaryAccesses, accessRequests, now, calls>>

\* POST /api/users; a taken username is rejected, a free one creates the user
CreateUser(walletAddress, usernameTaken) ==
    /\ IF usernameTaken
       THEN /\ res' = Response(400, "Username already exists")
            /\ UNCHANGED users
       ELSE /\ Len(users) < MaxUsers
            /\ users' = Append(users, [walletAddress |-> walletAddress])
            /\ res' = Response(201, "user")
    /\ UNCHANGED <<courses, ownerships, temporaryAccesses, accessRequests, now, calls>>

\* a wallet connection that looks for the user whose stored address is
\* exactly the normalized one, so a user stored in another case is not found
connectWallet_ExactMatch(walletAddress) ==
    LET normalizedWalletAddress == ToLowerCase(walletAddress)
        found == { i \in DOMAIN users : users[i].walletAddress = normalizedWalletAddress }
        user == IF found = {} THEN 0 ELSE Min(found)
    IN  IF user = 0
        THEN [users |-> Append(users, [walletAddress |-> normalizedWalletAddress]),
              res |-> [status |-> 200, body |-> "user", id |-> Len(users) + 1]]
        ELSE [users |-> users,
              res |-> [status |-> 200, body |-> "user", id |-> user]]

\* the body of POST /api/users/connect-wallet: the users map it leaves and its
\* response, which carries the user found, updated or created
connectWallet(walletAddress) ==
    LET normalizedWalletAddress == ToLowerCase(walletAddress)
        user == getUserByWalletAddress(normalizedWalletAddress)
    IN  IF user = 0
        THEN [users |-> Append(users, [walletAddress |-> normalizedWalletAddress]),
              res |-> [status |-> 200, body |-> "user", id |-> Len(users) + 1]]
        ELSE IF users[user].walletAddress # normalizedWalletAddress
        THEN [users |-> [users EXCEPT ![user].walletAddress = normalizedWalletAddress],
              res |-> [status |-> 200, body |-> "user", id |-> user]]
        ELSE [users |-> users,
              res |-> [status |-> 200, body |-> "user", id |-> user]]

\* POST /api/users/connect-wallet
ConnectWallet(walletAddress) ==
    /\ users' = connectWallet(walletAddress).users
    /\ res' = connectWallet(walletAddress).res
    /\ UNCHANGED <<courses, ownerships, temporaryAccesses, accessRequests, now, calls>>

\* PATCH /api/users/:id with a walletAddress in the body
UpdateUser(id, walletAddress) ==
    /\ IF id \in DOMAIN users
       THEN /\ users' = [users EXCEPT ![id].walletAddress = walletAddress]
            /\ res' = Response(200, "user")
       ELSE /\ res' = Response(404, "User not found")
            /\ UNCHANGED users
    /\ UNCHANGED <<courses, ownerships, temporaryAccesses, accessRequests, now, calls>>

\* POST /api/nft/mint
Mint(courseId, ownerId) ==
    /\ IF getCourse(courseId) = 0
       THEN /\ res' = Response(404, "Course not found")
            /\ UNCHANGED ownerships
       ELSE IF getNftOwnershipByCourseAndOwner(courseId, ownerId) # 0
       THEN /\ res' = Response(400, "User already owns this course NFT")
            /\ UNCHANGED ownerships
       ELSE /\ Len(ownerships) < MaxOwnerships
            /\ ownerships' = Append(ownerships, [courseId |-> courseId, ownerId |-> ownerId])
            /\ res' = Response(201, "ownership")
    /\ UNCHANGED <<users, courses, temporaryAccesses, accessRequests, now, calls>>

\* a share that does not look the ownership up before it makes the grant
Share_NoOwnershipCheck(ownershipId, recipientAddress, expiresAt) ==
    LET normalizedRecipientAddress == ToLowerCase(recipientAddress)
    IN  /\ IF getActiveTemporaryAccess(ownershipId, normalizedRecipientAddress) # 0
           THEN /\ res' = Response(400, "Active temporary access already exists for this recipient")
                /\ UNCHANGED temporaryAccesses
           ELSE /\ Len(temporaryAccesses) < MaxAccesses
                /\ temporaryAccesses' = Append(temporaryAccesses,
                        [ownershipId |-> ownershipId,
                         recipientAddress |-> normalizedRecipientAddress,
                         expiresAt |-> expiresAt,
                         isActive |-> TRUE])
                /\ res' = Response(201, "access")
        /\ UNCHANGED <<users, courses, ownerships, accessRequests, now, calls>>

\* POST /api/access/share
Share(ownershipId, recipientAddress, expiresAt) ==
    LET normalizedRecipientAddress == ToLowerCase(recipientAddress)
    IN  /\ IF getNftOwnership(ownershipId) = 0
           THEN /\ res' = Response(404, "NFT ownership not found")
                /\ UNCHANGED temporaryAccesses
           ELSE IF getActiveTemporaryAccess(ownershipId, normalizedRecipientAddress) # 0
           THEN /\ res' = Response(400, "Active temporary access already exists for this recipient")
                /\ UNCHANGED temporaryAccesses
           ELSE /\ Len(temporaryAccesses) < MaxAccesses
                /\ temporaryAccesses' = Append(temporaryAccesses,
                        [ownershipId |-> ownershipId,
                         recipientAddress |-> normalizedRecipientAddress,
                         expiresAt |-> expiresAt,
                         isActive |-> TRUE])
                /\ res' = Response(201, "access")
        /\ UNCHANGED <<users, courses, ownerships, accessRequests, now, calls>>

\* an access check that resolves the wallet the way a wallet connection does,
\* creating the user it does not find
CheckAccess_Resolving(courseId, walletAddress) ==
    /\ res' = checkAccess(courseId, walletAddress)
    /\ users' = connectWallet(walletAddress).users
    /\ UNCHANGED <<courses, ownerships, temporaryAccesses, accessRequests, now, calls>>

\* an access check that writes the expiry down: it clears isActive on the
\* grants it finds expired
CheckAccess_Expiring(courseId, walletAddress) ==
    /\ res' = checkAccess(courseId, walletAddress)
    /\ temporaryAccesses' = [i \in DOMAIN temporaryAccesses |->
            IF temporaryAccesses[i].expiresAt > now
            THEN temporaryAccesses[i]
            ELSE [temporaryAccesses[i] EXCEPT !.isActive = FALSE]]
    /\ UNCHANGED <<users, courses, ownerships, accessRequests, now, calls>>

\* POST /api/access/check
CheckAccess(courseId, walletAddress) ==
    /\ res' = checkAccess(courseId, walletAddress)
    /\ UNCHANGED <<users, courses, ownerships, temporaryAccesses, accessRequests, now, calls>>

\* a revocation that flips isActive instead of clearing it
Revoke_Toggle(accessId) ==
    /\ IF accessId \in DOMAIN temporaryAccesses
       THEN /\ temporaryAccesses' = [temporaryAccesses EXCEPT
                                        ![accessId].isActive = ~temporaryAccesses[accessId].isActive]
            /\ res' = Response(200, "Temporary access revoked successfully")
       ELSE /\ res' = Response(404, "Temporary access not found")
            /\ UNCHANGED temporaryAccesses
    /\ UNCHANGED <<users, courses, ownerships, accessRequests, now, calls>>

\* a revocation that treats a grant that is already inactive as not found
Revoke_OnlyActive(accessId) ==
    /\ IF accessId \in DOMAIN temporaryAccesses /\ temporaryAccesses[accessId].isActive
       THEN /\ temporaryAccesses' = [temporaryAccesses EXCEPT ![accessId].isActive = FALSE]
            /\ res' = Response(200, "Temporary access revoked successfully")
       ELSE /\ res' = Response(404, "Temporary access not found")
            /\ UNCHANGED temporaryAccesses
    /\ UNCHANGED <<users, courses, ownerships, accessRequests, now, calls>>

\* POST /api/access/revoke/:accessId
Revoke(accessId) ==
    /\ IF accessId \in DOMAIN temporaryAccesses
       THEN /\ temporaryAccesses' = [temporaryAccesses EXCEPT ![accessId].isActive = FALSE]
            /\ res' = Response(200, "Temporary access revoked successfully")
       ELSE /\ res' = Response(404, "Temporary access not found")
            /\ UNCHANGED temporaryAccesses
    /\ UNCHANGED <<users, courses, ownerships, accessRequests, now, calls>>

\* GET /api/access/shared/:walletAddress
SharedCourses(walletAddress) ==
    LET normalizedWalletAddress == ToLowerCase(walletAddress)
    IN  /\ res' = [status |-> 200, sharedCourses |-> getSharedCoursesForWallet(normalizedWalletAddress)]
        /\ UNCHANGED <<users, courses, ownerships, temporaryAccesses, accessRequests, now, calls>>

\* GET /api/access-requests/requester/:walletAddress
RequestsByRequester(walletAddress) ==
    LET normalizedWalletAddress == ToLowerCase(walletAddress)
    IN  /\ res' = getAccessRequestsByRequester(normalizedWalletAddress)
        /\ UNCHANGED <<users, courses, ownerships, temporaryAccesses, accessRequests, now, calls>>

\* GET /api/access-requests/owner/:walletAddress
RequestsByOwner(walletAddress) ==
    LET normalizedWalletAddress == ToLowerCase(walletAddress)
    IN  /\ res' = getAccessRequestsByOwner(normalizedWalletAddress)
        /\ UNCHANGED <<users, courses, ownerships, temporaryAccesses, accessRequests, now, calls>>

\* a submit that stores the status the caller posted
SubmitRequest_KeepStatus(courseId, requesterAddress, ownerAddress, requestDuration, status) ==
    /\ accessRequests' = Append(accessRequests,
            [courseId |-> courseId,
             requesterAddress |-> ToLowerCase(requesterAddress),
             ownerAddress |-> ToLowerCase(ownerAddress),
             requestDuration |-> requestDuration,
             status |-> status,
             createdAt |-> now,
             updatedAt |-> now])
    /\ res' = Response(201, "request")
    /\ UNCHANGED <<users, courses, ownerships, temporaryAccesses, now, calls>>

\* POST /api/access-requests; the posted status is overwritten by 'pending'
SubmitRequest(courseId, requesterAddress, ownerAddress, requestDuration, status) ==
    /\ accessRequests' = Append(accessRequests,
            [courseId |-> courseId,
             requesterAddress |-> ToLowerCase(requesterAddress),
             ownerAddress |-> ToLowerCase(ownerAddress),
             requestDuration |-> requestDuration,
             status |-> "pending",
             createdAt |-> now,
             updatedAt |-> now])
    /\ res' = Response(201, "request")
    /\ UNCHANGED <<users, courses, ownerships, temporaryAccesses, now, calls>>

\* a status update that reaches every request of the same requester
updateAccessRequestStatus_SameRequester(id, status) ==
    [q \in DOMAIN accessRequests |->
        IF accessRequests[q].requesterAddress = accessRequests[id].requesterAddress
        THEN [accessRequests[q] EXCEPT !.status = status, !.updatedAt = now]
        ELSE accessRequests[q]]

\* MemStorage.updateAccessRequestStatus
updateAccessRequestStatus(id, status) ==
    [accessRequests EXCEPT ![id].status = status, ![id].updatedAt = now]

\* an approval without the check that the owner holds the ownership: reading
\* ownership.id of undefined throws, and the inner catch answers accessGranted: false
approvalStep_NoOwnershipCheck(request) ==
    LET user == getUserByWalletAddress(request.ownerAddress)
        ownership == IF user = 0 THEN 0
                     ELSE getNftOwnershipByCourseAndOwner(request.courseId, user)
    IN  IF user = 0
        THEN [status |-> 404, body |-> "Owner user not found", ownershipId |-> 0]
        ELSE IF ownership = 0
        THEN [status |-> 200, body |-> "accessNotGranted", ownershipId |-> 0]
        ELSE [status |-> 200, body |-> "accessGranted", ownershipId |-> ownership]

\* an approval that does not resolve the owner: it grants on the first ownership
\* of the course, whoever holds it
approvalStep_AnyOwner(request) ==
    LET found == { k \in DOMAIN ownerships : ownerships[k].courseId = request.courseId }
    IN  IF found = {}
        THEN [status |-> 404, body |-> "Owner does not own this course", ownershipId |-> 0]
        ELSE [status |-> 200, body |-> "accessGranted", ownershipId |-> Min(found)]

\* the approval branch up to the grant: the owner's user, then the ownership
approvalStep(request) ==
    LET user == getUserByWalletAddress(request.ownerAddress)
        ownership == IF user = 0 THEN 0
                     ELSE getNftOwnershipByCourseAndOwner(request.courseId, user)
    IN  IF user = 0
        THEN [status |-> 404, body |-> "Owner user not found", ownershipId |-> 0]
        ELSE IF ownership = 0
        THEN [status |-> 404, body |-> "Owner does not own this course", ownershipId |-> 0]
        ELSE [status |-> 200, body |-> "accessGranted", ownershipId |-> ownership]

\* PATCH /api/access-requests/:id/status
SetStatus(requestId, status) ==
    /\ IF status \notin {"pending", "approved", "rejected"}
       THEN /\ res' = Response(400, "Invalid status value")
            /\ UNCHANGED <<accessRequests, temporaryAccesses>>
       ELSE IF requestId \notin DOMAIN accessRequests
       THEN /\ res' = Response(404, "Access request not found")
            /\ UNCHANGED <<accessRequests, temporaryAccesses>>
       ELSE LET request == accessRequests[requestId]
                step == approvalStep(request)
            IN  /\ accessRequests' = updateAccessRequestStatus(requestId, status)
                /\ IF status # "approved"
                   THEN /\ res' = Response(200, "request")
                        /\ UNCHANGED temporaryAccesses
                   ELSE IF step.ownershipId = 0
                   THEN /\ res' = Response(step.status, step.body)
                        /\ UNCHANGED temporaryAccesses
                   ELSE /\ Len(temporaryAccesses) < MaxAccesses
                        /\ temporaryAccesses' = Append(temporaryAccesses,
                                [ownershipId |-> step.ownershipId,
                                 recipientAddress |-> request.requesterAddress,
                                 expiresAt |-> now + request.requestDuration,
                                 isActive |-> TRUE])
                        /\ res' = Response(step.status, step.body)
    /\ UNCHANGED <<users, courses, ownerships, now, calls>>

\* the clock moves on between two requests
AdvanceClock ==
    /\ now < MaxClock
    /\ now' = now + 1
    /\ UNCHANGED <<users, courses, ownerships, temporaryAccesses, accessRequests, res, calls>>

\* the whole engine; ownerships are minted for registered user ids
Next ==
    \/ Len(courses) < MaxCourses /\ CreateCourse /\ UNCHANGED observed
    \/ \E w \in Addresses \cup {Null}, t \in BOOLEAN : CreateUser(w, t) /\ UNCHANGED observed
    \/ \E w \in Addresses : ConnectWallet(w) /\ Len(users') <= MaxUsers /\ UNCHANGED observed
    \/ \E u \in UserIds, w \in Addresses : UpdateUser(u, w) /\ UNCHANGED observed
    \/ \E c \in CourseIds, o \in UserIds : Mint(c, o) /\ UNCHANGED observed
    \/ \E k \in OwnershipIds, r \in Addresses, e \in ExpiryInputs : Share(k, r, e) /\ UNCHANGED observed
    \/ \E c \in CourseIds, w \in Addresses : CheckAccess(c, w) /\ UNCHANGED observed
    \/ \E a \in AccessIds : Revoke(a) /\ UNCHANGED observed
    \/ \E c \in CourseIds, ra \in Addresses, oa \in Addresses, d \in DurationInputs, st \in StatusInputs :
          Len(accessRequests) < MaxRequests /\ SubmitRequest(c, ra, oa, d, st) /\ UNCHANGED observed
    \/ \E q \in RequestIds, st \in StatusInputs : SetStatus(q, st) /\ UNCHANGED observed
    \/ AdvanceClock /\ UNCHANGED observed

Spec == Init /\ [][Next]_vars

\* the ownership ledger and the delegation engine without the request workflow;
\* ownerships are minted for any owner id
NextDelegation ==
    \/ Len(courses) < MaxCourses /\ CreateCourse /\ UNCHANGED observed
    \/ \E w \in Addresses \cup {Null}, t \in BOOLEAN : CreateUser(w, t) /\ UNCHANGED observed
    \/ \E w \in Addresses : ConnectWallet(w) /\ Len(users') <= MaxUsers /\ UNCHANGED observed
    \/ \E u \in UserIds, w \in Addresses : UpdateUser(u, w) /\ UNCHANGED observed
    \/ \E c \in CourseIds, o \in OwnerIds : Mint(c, o) /\ UNCHANGED observed
    \/ \E k \in OwnershipIds, r \in Addresses, e \in ExpiryInputs : Share(k, r, e) /\ UNCHANGED observed
    \/ \E c \in CourseIds, w \in Addresses : CheckAccess(c, w) /\ UNCHANGED observed
    \/ \E a \in AccessIds : Revoke(a) /\ UNCHANGED observed
    \/ \E w \in Addresses : SharedCourses(w) /\ UNCHANGED observed
    \/ AdvanceClock /\ UNCHANGED observed

SpecDelegation == Init /\ [][NextDelegation]_vars

\* the identity resolver with every handler that takes a wallet address: up to
\* MaxWallets users, the later ones created by wallet connections; grants and
\* requests are made with one expiry and one duration and the clock stands still
NextIdentity ==
    \/ Len(courses) < MaxCourses /\ CreateCourse /\ UNCHANGED observed
    \/ \E w \in Addresses \cup {Null} : CreateUser(w, FALSE) /\ UNCHANGED observed
    \/ \E w \in Addresses : ConnectWallet(w) /\ Len(users') <= MaxWallets /\ UNCHANGED observed
    \/ \E u \in UserIds, w \in Addresses : UpdateUser(u, w) /\ UNCHANGED observed
    \/ \E c \in CourseIds, o \in WalletUserIds : Mint(c, o) /\ UNCHANGED observed
    \/ \E k \in OwnershipIds, r \in Addresses : Share(k, r, MaxClock + 1) /\ UNCHANGED observed
    \/ \E c \in CourseIds, w \in Addresses : CheckAccess(c, w) /\ UNCHANGED observed
    \/ \E w \in Addresses : SharedCourses(w) /\ UNCHANGED observed
    \/ \E w \in Addresses : RequestsByRequester(w) /\ UNCHANGED observed
    \/ \E w \in Addresses : RequestsByOwner(w) /\ UNCHANGED observed
    \/ \E c \in CourseIds, ra \in Addresses, oa \in Addresses :
          Len(accessRequests) < MaxRequests /\ SubmitRequest(c, ra, oa, MinDuration, "approved")
             /\ UNCHANGED observed
    \/ \E q \in RequestIds : SetStatus(q, "approved") /\ UNCHANGED observed

SpecIdentity == Init /\ [][NextIdentity]_vars

\* the request workflow with up to MaxWorkflowRequests requests of one duration,
\* owners registered by wallet connections, and approvals as the only source of grants
NextWorkflow ==
    \/ Len(courses) < MaxCourses /\ CreateCourse /\ UNCHANGED observed
    \/ \E w \in Addresses : ConnectWallet(w) /\ Len(users') <= MaxUsers /\ UNCHANGED observed
    \/ \E c \in CourseIds, o \in UserIds : Mint(c, o) /\ UNCHANGED observed
    \/ \E c \in CourseIds, w \in Addresses : CheckAccess(c, w) /\ UNCHANGED observed
    \/ \E c \in CourseIds, ra \in Addresses, oa \in Addresses :
          Len(accessRequests) < MaxWorkflowRequests /\ SubmitRequest(c, ra, oa, MinDuration, "pending")
             /\ UNCHANGED observed
    \/ \E q \in WorkflowRequestIds, st \in {"approved", "rejected"} :
          SetStatus(q, st) /\ UNCHANGED observed
    \/ AdvanceClock /\ UNCHANGED observed

SpecWorkflow == Init /\ [][NextWorkflow]_vars

\* the access check over up to MaxCatalog courses: ownerships and grants of the
\* one course and of the other
NextCatalog ==
    \/ Len(courses) < MaxCatalog /\ CreateCourse /\ UNCHANGED observed
    \/ \E w \in Addresses : ConnectWallet(w) /\ Len(users') <= MaxUsers /\ UNCHANGED observed
    \/ \E c \in CatalogIds, o \in OwnerIds : Mint(c, o) /\ UNCHANGED observed
    \/ \E k \in OwnershipIds, r \in Addresses, e \in ExpiryInputs : Share(k, r, e) /\ UNCHANGED observed
    \/ \E c \in CatalogIds, w \in Addresses : CheckAccess(c, w) /\ UNCHANGED observed
    \/ \E a \in AccessIds : Revoke(a) /\ UNCHANGED observed
    \/ AdvanceClock /\ UNCHANGED observed

SpecCatalog == Init /\ [][NextCatalog]_vars

\* ------------------------------------------- POST /api/nft/mint, await by await
\* Each await of the handler hands control back to the event loop, where the
\* handler of another request may run; a storage method reads or writes its
\* map when it is called, before the await on its promise.

\* the request arrives: the body is validated and getCourse is called
MintRequest(p, courseId, ownerId) ==
    /\ calls[p].pc = "idle"
    /\ calls' = [calls EXCEPT ![p] =
            [pc |-> "getCourse", courseId |-> courseId, ownerId |-> ownerId,
             course |-> getCourse(courseId), existingOwnership |-> 0, status |-> 0]]
    /\ UNCHANGED <<users, courses, ownerships, temporaryAccesses, accessRequests, now, res>>

\* after await getCourse: 404 without course, else the duplicate lookup is called
MintCheckOwnership(p) ==
    /\ calls[p].pc = "getCourse"
    /\ IF calls[p].course = 0
       THEN /\ calls' = [calls EXCEPT ![p] = Idle(404)]
            /\ res' = Response(404, "Course not found")
       ELSE /\ calls' = [calls EXCEPT
                  ![p].pc = "getNftOwnershipByCourseAndOwner",
                  ![p].existingOwnership =
                      getNftOwnershipByCourseAndOwner(calls[p].courseId, calls[p].ownerId)]
            /\ UNCHANGED res
    /\ UNCHANGED <<users, courses, ownerships, temporaryAccesses, accessRequests, now>>

\* after await getNftOwnershipByCourseAndOwner: 400 when it found an ownership,
\* else createNftOwnership is called and inserts the record
MintCreate(p) ==
    /\ calls[p].pc = "getNftOwnershipByCourseAndOwner"
    /\ IF calls[p].existingOwnership # 0
       THEN /\ calls' = [calls EXCEPT ![p] = Idle(400)]
            /\ res' = Response(400, "User already owns this course NFT")
            /\ UNCHANGED ownerships
       ELSE /\ Len(ownerships) < MaxOwnerships
            /\ ownerships' = Append(ownerships,
                    [courseId |-> calls[p].courseId, ownerId |-> calls[p].ownerId])
            /\ calls' = [calls EXCEPT ![p].pc = "createNftOwnership"]
            /\ UNCHANGED res
    /\ UNCHANGED <<users, courses, temporaryAccesses, accessRequests, now>>

\* after await createNftOwnership: the ownership is the response
MintRespond(p) ==
    /\ calls[p].pc = "createNftOwnership"
    /\ calls' = [calls EXCEPT ![p] = Idle(201)]
    /\ res' = Response(201, "ownership")
    /\ UNCHANGED <<users, courses, ownerships, temporaryAccesses, accessRequests, now>>

\* mint requests of several callers in flight at once, interleaved at the awaits
NextMintRace ==
    \/ Len(courses) < MaxCourses /\ CreateCourse /\ UNCHANGED observed
    \/ \E p \in Callers, c \in CourseIds, o \in OwnerIds : MintRequest(p, c, o) /\ UNCHANGED observed
    \/ \E p \in Callers : MintCheckOwnership(p) /\ UNCHANGED observed
    \/ \E p \in Callers : MintCreate(p) /\ UNCHANGED observed
    \/ \E p \in Callers : MintRespond(p) /\ UNCHANGED observed

SpecMintRace == Init /\ [][NextMintRace]_vars

\* ----------------------------------------- POST /api/access/check, await by await
\* the positions of an access check in flight
CheckPcs == {"getUserByWalletAddress", "getNftOwnershipByCourseAndOwner", "checkTemporaryAccess"}

\* the request arrives: the address is normalized and getUserByWalletAddress is called
CheckRequest(p, courseId, walletAddress) ==
    /\ calls[p].pc = "idle"
    /\ calls' = [calls EXCEPT ![p] =
            [pc |-> "getUserByWalletAddress", courseId |-> courseId,
             walletAddress |-> ToLowerCase(walletAddress),
             user |-> getUserByWalletAddress(ToLowerCase(walletAddress)),
             directOwnership |-> 0, hasTemporaryAccess |-> FALSE, status |-> 0]]
    /\ observed' = [observed EXCEPT ![p] = {checkAccess(courseId, walletAddress)}]
    /\ UNCHANGED <<users, courses, ownerships, temporaryAccesses, accessRequests, now, res>>

\* after await getUserByWalletAddress: with a user the ownership lookup is called,
\* without one the grant lookup
CheckOwnership(p) ==
    /\ calls[p].pc = "getUserByWalletAddress"
    /\ IF calls[p].user # 0
       THEN calls' = [calls EXCEPT
                ![p].pc = "getNftOwnershipByCourseAndOwner",
                ![p].directOwnership =
                    getNftOwnershipByCourseAndOwner(calls[p].courseId, calls[p].user)]
       ELSE calls' = [calls EXCEPT
                ![p].pc = "checkTemporaryAccess",
                ![p].hasTemporaryAccess =
                    checkTemporaryAccess(calls[p].courseId, calls[p].walletAddress)]
    /\ UNCHANGED <<users, courses, ownerships, temporaryAccesses, accessRequests, now, res, observed>>

\* after await getNftOwnershipByCourseAndOwner: "owner" when it found an ownership,
\* else the grant lookup is called
CheckTemporary(p) ==
    /\ calls[p].pc = "getNftOwnershipByCourseAndOwner"
    /\ IF calls[p].directOwnership # 0
       THEN /\ calls' = [calls EXCEPT ![p] = Idle(200)]
            /\ res' = Response(200, "owner")
            /\ observed' = [observed EXCEPT ![p] = {}]
       ELSE /\ calls' = [calls EXCEPT
                  ![p].pc = "checkTemporaryAccess",
                  ![p].hasTemporaryAccess =
                      checkTemporaryAccess(calls[p].courseId, calls[p].walletAddress)]
            /\ UNCHANGED <<res, observed>>
    /\ UNCHANGED <<users, courses, ownerships, temporaryAccesses, accessRequests, now>>

\* after await checkTemporaryAccess: "temporary" when it found a grant, else no access
CheckRespond(p) ==
    /\ calls[p].pc = "checkTemporaryAccess"
    /\ calls' = [calls EXCEPT ![p] = Idle(200)]
    /\ res' = IF calls[p].hasTemporaryAccess
              THEN Response(200, "temporary")
              ELSE Response(200, "noAccess")
    /\ observed' = [observed EXCEPT ![p] = {}]
    /\ UNCHANGED <<users, courses, ownerships, temporaryAccesses, accessRequests, now>>

\* history: another handler has run; each access check in flight would now get
\* the answer of the new state
Watch ==
    observed' = [p \in Callers |->
        IF calls[p].pc \in CheckPcs
        THEN observed[p] \cup {checkAccess(calls[p].courseId, calls[p].walletAddress)'}
        ELSE observed[p]]

\* no access check is in flight
NoCheck == \A p \in Callers : calls[p].pc \notin CheckPcs

\* an access check in flight while ownerships are minted and grants made and revoked;
\* courses are created, wallets connected and the next check sent while none is in flight
NextCheckRace ==
    \/ NoCheck /\ Len(courses) < MaxCourses /\ CreateCourse /\ UNCHANGED observed
    \/ \E w \in Addresses :
          NoCheck /\ ConnectWallet(w) /\ Len(users') <= MaxUsers /\ UNCHANGED observed
    \/ \E c \in CourseIds, o \in OwnerIds : Mint(c, o) /\ Watch
    \/ \E k \in OwnershipIds, r \in Addresses : Share(k, r, MaxClock + 1) /\ Watch
    \/ \E a \in AccessIds : Revoke(a) /\ Watch
    \/ \E p \in Callers, c \in CourseIds, w \in Addresses : NoCheck /\ CheckRequest(p, c, w)
    \/ \E p \in Callers : CheckOwnership(p)
    \/ \E p \in Callers : CheckTemporary(p)
    \/ \E p \in Callers : CheckRespond(p)

SpecCheckRace == Init /\ [][NextCheckRace]_vars


\* ---------------------------------------- POST /api/access/share, await by await
\* the request arrives: the address is normalized, the body validated and
\* getNftOwnership is called
ShareRequest(p, ownershipId, recipientAddress, expiresAt) ==
    /\ calls[p].pc = "idle"
    /\ calls' = [calls EXCEPT ![p] =
            [pc |-> "getNftOwnership", ownershipId |-> ownershipId,
             recipientAddress |-> ToLowerCase(recipientAddress), expiresAt |-> expiresAt,
             ownership |-> getNftOwnership(ownershipId), existingAccess |-> 0, status |-> 0]]
    /\ UNCHANGED <<users, courses, ownerships, temporaryAccesses, accessRequests, now, res, observed>>

\* after await getNftOwnership: 404 without ownership, else the duplicate lookup is called
ShareCheckAccess(p) ==
    /\ calls[p].pc = "getNftOwnership"
    /\ IF calls[p].ownership = 0
       THEN /\ calls' = [calls EXCEPT ![p] = Idle(404)]
            /\ res' = Response(404, "NFT ownership not found")
       ELSE /\ calls' = [calls EXCEPT
                  ![p].pc = "getActiveTemporaryAccess",
                  ![p].existingAccess =
                      getActiveTemporaryAccess(calls[p].ownershipId, calls[p].recipientAddress)]
            /\ UNCHANGED res
    /\ UNCHANGED <<users, courses, ownerships, temporaryAccesses, accessRequests, now, observed>>

\* after await getActiveTemporaryAccess: 400 when it found a grant, else
\* createTemporaryAccess is called and inserts the record
ShareCreate(p) ==
    /\ calls[p].pc = "getActiveTemporaryAccess"
    /\ IF calls[p].existingAccess # 0
       THEN /\ calls' = [calls EXCEPT ![p] = Idle(400)]
            /\ res' = Response(400, "Active temporary access already exists for this recipient")
            /\ UNCHANGED temporaryAccesses
       ELSE /\ Len(temporaryAccesses) < MaxAccesses
            /\ temporaryAccesses' = Append(temporaryAccesses,
                    [ownershipId |-> calls[p].ownershipId,
                     recipientAddress |-> calls[p].recipientAddress,
                     expiresAt |-> calls[p].expiresAt,
                     isActive |-> TRUE])
            /\ calls' = [calls EXCEPT ![p].pc = "createTemporaryAccess"]
            /\ UNCHANGED res
    /\ UNCHANGED <<users, courses, ownerships, accessRequests, now, observed>>

\* after await createTemporaryAccess: the grant is the response
ShareRespond(p) ==
    /\ calls[p].pc = "createTemporaryAccess"
    /\ calls' = [calls EXCEPT ![p] = Idle(201)]
    /\ res' = Response(201, "access")
    /\ UNCHANGED <<users, courses, ownerships, temporaryAccesses, accessRequests, now, observed>>

\* share requests of several callers in flight at once, interleaved at the awaits
NextShareRace ==
    \/ Len(courses) < MaxCourses /\ CreateCourse /\ UNCHANGED observed
    \/ \E c \in CourseIds, o \in OwnerIds : Mint(c, o) /\ UNCHANGED observed
    \/ \E p \in Callers, k \in OwnershipIds, r \in Addresses : ShareRequest(p, k, r, MaxClock + 1)
    \/ \E p \in Callers : ShareCheckAccess(p)
    \/ \E p \in Callers : ShareCreate(p)
    \/ \E p \in Callers : ShareRespond(p)

SpecShareRace == Init /\ [][NextShareRace]_vars

\* ---------------------------------------------------------------- claims
\* the grant i is effectively active
Live(i) == temporaryAccesses[i].isActive /\ temporaryAccesses[i].expiresAt > now

\* the user registered for wallet w: the first user whose address is w, ignoring case
RegisteredUser(u, w) ==
    /\ u \in DOMAIN users
    /\ users[u].walletAddress # Null
    /\ ToLowerCase(users[u].walletAddress) = ToLowerCase(w)
    /\ \A v \in DOMAIN users :
          (users[v].walletAddress # Null
             /\ ToLowerCase(users[v].walletAddress) = ToLowerCase(w)) => u <= v

Owns(u, c) == \E k \in DOMAIN ownerships : ownerships[k].courseId = c /\ ownerships[k].ownerId = u

\* wallet w is the wallet of a registered user who holds an ownership of course c
OwnerWallet(c, w) == \E u \in DOMAIN users : RegisteredUser(u, w) /\ Owns(u, c)

\* the grants of wallet w on ownerships of course c that are effectively active
LiveGrants(c, w) ==
    { i \in DOMAIN temporaryAccesses :
        /\ temporaryAccesses[i].ownershipId \in DOMAIN ownerships
        /\ ownerships[temporaryAccesses[i].ownershipId].courseId = c
        /\ temporaryAccesses[i].recipientAddress = ToLowerCase(w)
        /\ Live(i) }

\* C1: there is never more than one Ownership per (courseId, ownerId); a mint
\* for an existing course and a pair without ownership inserts exactly that
\* record and answers 201; a mint for a pair that has one is rejected (400,
\* already owned) and leaves the ledger unchanged.
C1_OneOwnershipPerPair ==
    /\ [](\A i, j \in DOMAIN ownerships :
            (ownerships[i].courseId = ownerships[j].courseId
               /\ ownerships[i].ownerId = ownerships[j].ownerId) => i = j)
    /\ [][\A c \in CourseIds, o \in OwnerIds :
            (Mint(c, o) /\ c \in DOMAIN courses) =>
                IF Owns(o, c)
                THEN /\ res' = Response(400, "User already owns this course NFT")
                     /\ ownerships' = ownerships
                ELSE /\ res' = Response(201, "ownership")
                     /\ ownerships' = Append(ownerships, [courseId |-> c, ownerId |-> o])]_vars

\* a second mint for a pair was just rejected while two ownerships exist
C1_Witness ==
    /\ res = Response(400, "User already owns this course NFT")
    /\ Len(ownerships) = 2

C5_TemporaryWhileLive ==
    /\ [](\A c \in CourseIds, w \in Addresses :
            ~OwnerWallet(c, w) =>
                checkAccess(c, w) = IF LiveGrants(c, w) # {}
                                    THEN Response(200, "temporary")
                                    ELSE Response(200, "noAccess"))
    /\ [][\A c \in CourseIds, w \in Addresses, i \in AccessIds :
            (/\ ~OwnerWallet(c, w)
             /\ LiveGrants(c, w) = {i}
             /\ \/ Revoke(i)
                \/ AdvanceClock /\ now' >= temporaryAccesses[i].expiresAt)
            => checkAccess(c, w)' = Response(200, "noAccess")]_vars
    /\ [][\A c \in CourseIds, w \in Addresses :
            (/\ checkAccess(c, w) = Response(200, "noAccess")
             /\ Len(temporaryAccesses') = Len(temporaryAccesses))
            => checkAccess(c, w)' # Response(200, "temporary")]_vars

\* an access check was just denied while every wallet has a grant and no grant
\* is live any more: one was revoked, one has expired
C5_Witness ==
    /\ res = Response(200, "noAccess")
    /\ \A w \in Addresses : \E i \in DOMAIN temporaryAccesses :
          temporaryAccesses[i].recipientAddress = ToLowerCase(w) /\ ~Live(i)
    /\ \E i \in DOMAIN temporaryAccesses : ~temporaryAccesses[i].isActive
    /\ \E i \in DOMAIN temporaryAccesses :
          temporaryAccesses[i].isActive /\ temporaryAccesses[i].expiresAt <= now

\* C9: a share for an existing ownership and a recipient that holds an
\* effectively active grant on it is rejected (400) and creates no record; a
\* share when no such grant is live - none was made, or it was revoked, or the
\* clock has reached its expiresAt - creates one new active record (201).
C9_GrantTwice ==
    [][\A k \in OwnershipIds, r \in Addresses, e \in ExpiryInputs :
        (Share(k, r, e) /\ k \in DOMAIN ownerships) =>
            IF \E i \in DOMAIN temporaryAccesses :
                    /\ temporaryAccesses[i].ownershipId = k
                    /\ temporaryAccesses[i].recipientAddress = ToLowerCase(r)
                    /\ Live(i)
            THEN /\ res' = Response(400, "Active temporary access already exists for this recipient")
                 /\ temporaryAccesses' = temporaryAccesses
            ELSE /\ res' = Response(201, "access")
                 /\ temporaryAccesses' = Append(temporaryAccesses,
                        [ownershipId |-> k, recipientAddress |-> ToLowerCase(r),
                         expiresAt |-> e, isActive |-> TRUE])]_vars

\* a share just succeeded for a pair whose earlier grant was revoked before it expired
C9_Witness ==
    /\ res = Response(201, "access")
    /\ Len(temporaryAccesses) = 2
    /\ temporaryAccesses[1].ownershipId = temporaryAccesses[2].ownershipId
    /\ temporaryAccesses[1].recipientAddress = temporaryAccesses[2].recipientAddress
    /\ ~temporaryAccesses[1].isActive
    /\ temporaryAccesses[1].expiresAt > now
    /\ Live(2)

\* the ownership the owner named by request q holds for the request's course, 0 if none
OwnerOwnership(q) ==
    LET r == accessRequests[q]
        found == { k \in DOMAIN ownerships :
                     /\ ownerships[k].courseId = r.courseId
                     /\ RegisteredUser(ownerships[k].ownerId, r.ownerAddress) }
    IN  IF found = {} THEN 0 ELSE Min(found)

Pending(q) == q \in DOMAIN accessRequests /\ accessRequests[q].status = "pending"

\* C2: for every (ownershipId, recipientAddress) at most one DelegatedAccess is
\* active and not expired, whether granted by a share or by an approval.
C2_OneLiveGrantPerPair ==
    \A i, j \in DOMAIN temporaryAccesses :
        (/\ temporaryAccesses[i].ownershipId = temporaryAccesses[j].ownershipId
         /\ temporaryAccesses[i].recipientAddress = temporaryAccesses[j].recipientAddress
         /\ Live(i) /\ Live(j)) => i = j

\* C3: a request whose status is approved or rejected keeps its status and its
\* updatedAt in every step, and no step on it issues a grant.
C3_TerminalStatusStays ==
    [][\A q \in DOMAIN accessRequests :
        accessRequests[q].status \in {"approved", "rejected"} =>
            /\ accessRequests'[q].status = accessRequests[q].status
            /\ accessRequests'[q].updatedAt = accessRequests[q].updatedAt
            /\ \A st \in StatusInputs :
                  SetStatus(q, st) => /\ res'.status = 400
                                      /\ temporaryAccesses' = temporaryAccesses]_vars

\* C6: approving a pending request whose owner holds the ownership K of the
\* course, from a requester who is no owner of it, sets the status to approved
\* and appends exactly the grant (K, requester, now + requestDuration, active);
\* the requester is then answered "temporary", and once the clock is past
\* approval time + duration, is denied.
C6_ApprovalGrantsAccess ==
    /\ [][\A q \in RequestIds :
            (/\ SetStatus(q, "approved")
             /\ Pending(q)
             /\ OwnerOwnership(q) # 0
             /\ ~OwnerWallet(accessRequests[q].courseId, accessRequests[q].requesterAddress)) =>
                /\ accessRequests'[q].status = "approved"
                /\ temporaryAccesses' = Append(temporaryAccesses,
                        [ownershipId |-> OwnerOwnership(q),
                         recipientAddress |-> accessRequests[q].requesterAddress,
                         expiresAt |-> now + accessRequests[q].requestDuration,
                         isActive |-> TRUE])
                /\ checkAccess(accessRequests[q].courseId, accessRequests[q].requesterAddress)'
                      = Response(200, "temporary")]_vars
    /\ [](\A q \in DOMAIN accessRequests :
            (/\ accessRequests[q].status = "approved"
             /\ OwnerOwnership(q) # 0
             /\ ~OwnerWallet(accessRequests[q].courseId, accessRequests[q].requesterAddress)
             /\ now > accessRequests[q].updatedAt + accessRequests[q].requestDuration)
            => checkAccess(accessRequests[q].courseId, accessRequests[q].requesterAddress)
                  = Response(200, "noAccess"))

\* C7: approving a pending request whose named owner is a registered user
\* without an ownership of the course answers 404 "Owner does not own this
\* course", creates no DelegatedAccess and leaves the status approved.
C7_OwnershipMissingKeepsApproval ==
    [][\A q \in RequestIds :
        (/\ SetStatus(q, "approved")
         /\ Pending(q)
         /\ \E u \in DOMAIN users : RegisteredUser(u, accessRequests[q].ownerAddress)
         /\ OwnerOwnership(q) = 0)
        => /\ res' = Response(404, "Owner does not own this course")
           /\ temporaryAccesses' = temporaryAccesses
           /\ accessRequests'[q].status = "approved"
           /\ \A p \in DOMAIN accessRequests : p # q => accessRequests'[p] = accessRequests[p]]_vars

\* an approval was just answered "Owner does not own this course" and the
\* request is stored as approved
C7_Witness ==
    /\ res = Response(404, "Owner does not own this course")
    /\ \E q \in DOMAIN accessRequests :
          /\ accessRequests[q].status = "approved"
          /\ \E u \in DOMAIN users : RegisteredUser(u, accessRequests[q].ownerAddress)
          /\ OwnerOwnership(q) = 0

\* C8: approving a pending request whose requester already holds an effectively
\* active grant on the owner's ownership records the approval, creates no
\* second DelegatedAccess and reports that the grant was not created.
C8_DuplicateGrantOnApproval ==
    [][\A q \in RequestIds :
        (/\ SetStatus(q, "approved")
         /\ Pending(q)
         /\ OwnerOwnership(q) # 0
         /\ \E i \in DOMAIN temporaryAccesses :
               /\ temporaryAccesses[i].ownershipId = OwnerOwnership(q)
               /\ temporaryAccesses[i].recipientAddress = accessRequests[q].requesterAddress
               /\ Live(i))
        => /\ accessRequests'[q].status = "approved"
           /\ temporaryAccesses' = temporaryAccesses
           /\ res' = Response(200, "accessNotGranted")]_vars

\* C10: a submit with requestDuration outside MinDuration..MaxDuration is
\* rejected and creates no request, one inside is accepted; every stored
\* request has its requestDuration in MinDuration..MaxDuration.
C10_DurationInRange ==
    /\ [](\A q \in DOMAIN accessRequests :
            accessRequests[q].requestDuration \in MinDuration .. MaxDuration)
    /\ [][\A c \in CourseIds, ra \in Addresses, oa \in Addresses, d \in DurationInputs, st \in StatusInputs :
            SubmitRequest(c, ra, oa, d, st) =>
                IF d \in MinDuration .. MaxDuration
                THEN res'.status = 201 /\ Len(accessRequests') = Len(accessRequests) + 1
                ELSE res'.status = 400 /\ accessRequests' = accessRequests]_vars

\* two address strings that differ at most in letter case
CaseVariants(w1, w2) == ToLowerCase(w1) = ToLowerCase(w2)

\* C11: for two addresses that differ only in letter case, the wallet lookup,
\* connect-wallet, the duplicate check of a grant, the access check, the
\* shared-course listing, the request listings and the owner lookup of an
\* approval give the same result (and connect-wallet the same users) in every
\* state, and every share or submit step made with one of them is the step
\* made with the other: same response, same resulting state.
C11_CaseInsensitive ==
    /\ [](\A w1, w2 \in Addresses : (w1 # w2 /\ CaseVariants(w1, w2)) =>
            /\ getUserByWalletAddress(w1) = getUserByWalletAddress(w2)
            /\ connectWallet(w1) = connectWallet(w2)
            /\ \A k \in OwnershipIds :
                  getActiveTemporaryAccess(k, w1) = getActiveTemporaryAccess(k, w2)
            /\ \A c \in CourseIds : checkAccess(c, w1) = checkAccess(c, w2)
            /\ getSharedCoursesForWallet(w1) = getSharedCoursesForWallet(w2)
            /\ getAccessRequestsByRequester(w1) = getAccessRequestsByRequester(w2)
            /\ getAccessRequestsByOwner(w1) = getAccessRequestsByOwner(w2)
            /\ \A q \in DOMAIN accessRequests :
                  CaseVariants(w1, accessRequests[q].ownerAddress) =>
                      approvalStep([accessRequests[q] EXCEPT !.ownerAddress = w1])
                        = approvalStep([accessRequests[q] EXCEPT !.ownerAddress = w2]))
    /\ [][\A w1, w2 \in Addresses : (w1 # w2 /\ CaseVariants(w1, w2)) =>
            /\ \A k \in OwnershipIds :
                  Share(k, w1, MaxClock + 1) => Share(k, w2, MaxClock + 1)
            /\ \A c \in CourseIds, w \in Addresses :
                  /\ SubmitRequest(c, w1, w, MinDuration, "approved")
                       => SubmitRequest(c, w2, w, MinDuration, "approved")
                  /\ SubmitRequest(c, w, w1, MinDuration, "approved")
                       => SubmitRequest(c, w, w2, MinDuration, "approved")]_vars

\* an approval just granted access on the ownership of an owner whose stored
\* wallet is written in upper case, while a grant made by a share exists
C11_Witness ==
    /\ res = Response(200, "accessGranted")
    /\ \E u \in DOMAIN users : users[u].walletAddress = <<48, 120, 65>> /\ Owns(u, 1)
    /\ Len(temporaryAccesses) = 2

\* no two users have wallet addresses that are equal ignoring case
NoDuplicateWallets ==
    \A u, v \in DOMAIN users :
        (/\ users[u].walletAddress # Null
         /\ users[v].walletAddress # Null
         /\ CaseVariants(users[u].walletAddress, users[v].walletAddress)) => u = v

\* C12: a connect-wallet call with an address for which a user exists, in any
\* case variant, answers with that user's id and creates no user; a call with
\* a new address appends exactly one user, with the normalized address, and
\* answers with its id; no call leaves two users with addresses equal ignoring
\* case where there were none, so no sequence of calls from the empty store does.
C12_NoDuplicateUsers ==
    [][\A w \in Addresses : ConnectWallet(w) =>
          /\ IF \E u \in DOMAIN users : RegisteredUser(u, w)
             THEN /\ Len(users') = Len(users)
                  /\ RegisteredUser(res'.id, w)
                  /\ users'[res'.id].walletAddress = ToLowerCase(w)
                  /\ \A v \in DOMAIN users : v # res'.id => users'[v] = users[v]
             ELSE /\ users' = Append(users, [walletAddress |-> ToLowerCase(w)])
                  /\ res'.id = Len(users) + 1
          /\ NoDuplicateWallets => NoDuplicateWallets']_vars

\* a connect-wallet call was just answered with the first of two users, whose
\* wallets differ: the second call for a known address created nothing
C12_Witness ==
    /\ "id" \in DOMAIN res
    /\ res.id = 1
    /\ Len(users) = MaxWallets
    /\ NoDuplicateWallets
    /\ \A u \in DOMAIN users : users[u].walletAddress # Null

\* C13: a revoke of an existing grant answers success and leaves the grant
\* inactive and every other field and record as it was; when the grant was
\* inactive already the store does not change at all; a revoke of an id that
\* names no grant answers 404 "Temporary access not found" and changes nothing.
C13_RevokeIdempotent ==
    [][\A a \in AccessIds : Revoke(a) =>
          /\ UNCHANGED <<users, courses, ownerships, accessRequests>>
          /\ IF a \in DOMAIN temporaryAccesses
             THEN /\ res' = Response(200, "Temporary access revoked successfully")
                  /\ temporaryAccesses' = [temporaryAccesses EXCEPT ![a].isActive = FALSE]
                  /\ ~temporaryAccesses[a].isActive => temporaryAccesses' = temporaryAccesses
             ELSE /\ res' = Response(404, "Temporary access not found")
                  /\ temporaryAccesses' = temporaryAccesses]_vars

\* a revoke just succeeded and every grant is inactive, the second one on the
\* same ownership and recipient as the first: the first was revoked before the
\* second could be made
C13_Witness ==
    /\ res = Response(200, "Temporary access revoked successfully")
    /\ Len(temporaryAccesses) = 2
    /\ temporaryAccesses[1].ownershipId = temporaryAccesses[2].ownershipId
    /\ temporaryAccesses[1].recipientAddress = temporaryAccesses[2].recipientAddress
    /\ \A i \in DOMAIN temporaryAccesses :
          ~temporaryAccesses[i].isActive /\ temporaryAccesses[i].expiresAt > now

\* C14: in every step every grant record stays in the store, a record that
\* is inactive stays inactive, and a record the step creates is active.
C14_ActiveOnlyFalls ==
    [][/\ \A i \in DOMAIN temporaryAccesses :
             /\ i \in DOMAIN temporaryAccesses'
             /\ ~temporaryAccesses[i].isActive => ~temporaryAccesses'[i].isActive
       /\ \A i \in DOMAIN temporaryAccesses' :
             i \notin DOMAIN temporaryAccesses => temporaryAccesses'[i].isActive]_vars

\* an approval just created an active grant for the pair whose first grant
\* was revoked and is still inactive
C14_Witness ==
    /\ res = Response(200, "accessGranted")
    /\ Len(temporaryAccesses) = 2
    /\ temporaryAccesses[1].ownershipId = temporaryAccesses[2].ownershipId
    /\ temporaryAccesses[1].recipientAddress = temporaryAccesses[2].recipientAddress
    /\ ~temporaryAccesses[1].isActive
    /\ temporaryAccesses[2].isActive

\* the grants the shared-course listing of wallet w shows
ListedGrants(w) ==
    { getSharedCoursesForWallet(w)[n].shareId : n \in DOMAIN getSharedCoursesForWallet(w) }

\* C15: in every state and for every ownership, course and wallet, the
\* duplicate check of a grant finds a grant exactly when one of the pair is
\* active with expiresAt > now, the delegated branch of the access check holds
\* exactly when such a grant exists on an ownership of the course, and the
\* shared-course listing shows exactly the wallet's grants that are active with
\* expiresAt > now; so a grant with expiresAt = now counts in none of the three.
C15_OneLiveness ==
    \A w \in Addresses :
        /\ \A k \in DOMAIN ownerships :
              getActiveTemporaryAccess(k, w) # 0 <=>
                  \E i \in DOMAIN temporaryAccesses :
                      /\ temporaryAccesses[i].ownershipId = k
                      /\ temporaryAccesses[i].recipientAddress = ToLowerCase(w)
                      /\ Live(i)
        /\ \A c \in CourseIds : checkTemporaryAccess(c, w) <=> LiveGrants(c, w) # {}
        /\ ListedGrants(w) = { i \in DOMAIN temporaryAccesses :
                                 temporaryAccesses[i].recipientAddress = ToLowerCase(w) /\ Live(i) }
        /\ \A i \in DOMAIN temporaryAccesses :
              (temporaryAccesses[i].recipientAddress = ToLowerCase(w)
                 /\ temporaryAccesses[i].expiresAt = now) =>
                  /\ getActiveTemporaryAccess(temporaryAccesses[i].ownershipId, w) # i
                  /\ i \notin ListedGrants(w)

\* the listing just showed exactly the second grant of a wallet whose first
\* grant, on the same ownership, is active and expires at this instant
C15_Witness ==
    /\ "sharedCourses" \in DOMAIN res
    /\ Len(res.sharedCourses) = 1
    /\ res.sharedCourses[1].shareId = 2
    /\ Len(temporaryAccesses) = 2
    /\ temporaryAccesses[1].ownershipId = temporaryAccesses[2].ownershipId
    /\ temporaryAccesses[1].recipientAddress = temporaryAccesses[2].recipientAddress
    /\ temporaryAccesses[1].isActive
    /\ temporaryAccesses[1].expiresAt = now
    /\ Live(2)

\* C16: an access check, for any course and any wallet, leaves users,
\* courses, ownerships, grants and requests as they were: a step that changes
\* one of them is no access check.
C16_CheckAccessReadOnly ==
    [][\/ UNCHANGED <<users, courses, ownerships, temporaryAccesses, accessRequests>>
       \/ \A c \in CourseIds, w \in Addresses : ~CheckAccess(c, w)]_vars

\* an access check was just answered "temporary" for a wallet while no user
\* exists at all, and a request is stored
C16_Witness ==
    /\ res = Response(200, "temporary")
    /\ users = << >>
    /\ Len(accessRequests) = 1

\* C17: a step that adds to the requests adds exactly one, as the last one
\* and with status pending, and it is the submit of that request's course,
\* addresses and duration with any posted status: the status the caller posts
\* has no effect on what is stored.
C17_CreatedPending ==
    [][\/ Len(accessRequests') <= Len(accessRequests)
       \/ LET q == Len(accessRequests')
          IN  /\ q = Len(accessRequests) + 1
              /\ accessRequests'[q].status = "pending"
              /\ \A st \in StatusInputs :
                    SubmitRequest(accessRequests'[q].courseId,
                                  accessRequests'[q].requesterAddress,
                                  accessRequests'[q].ownerAddress,
                                  accessRequests'[q].requestDuration, st)]_vars

\* a submit was just answered 201 and its request is stored as pending
C17_Witness ==
    /\ res = Response(201, "request")
    /\ Len(accessRequests) = MaxRequests
    /\ accessRequests[Len(accessRequests)].status = "pending"
    /\ accessRequests[Len(accessRequests)].createdAt = now

\* C18: no stored request (with a duration the form accepts) has its
\* requesterAddress equal to its ownerAddress, and a submit whose two addresses
\* are equal ignoring case is rejected with an error and creates no request.
C18_SelfRequestRejected ==
    /\ [](\A q \in DOMAIN accessRequests :
            accessRequests[q].requestDuration \in MinDuration .. MaxDuration =>
                accessRequests[q].requesterAddress # accessRequests[q].ownerAddress)
    /\ [][\A c \in CourseIds, w1, w2 \in Addresses, st \in StatusInputs :
            (CaseVariants(w1, w2) /\ SubmitRequest(c, w1, w2, MinDuration, st)) =>
                /\ res'.status = 400
                /\ accessRequests' = accessRequests]_vars

\* C19: a status change of a pending request to a value that is neither
\* approved nor rejected, the value pending among them, is answered with an
\* error and leaves the request's status and updatedAt as they were.
C19_InvalidTargetRejected ==
    [][\A q \in RequestIds, st \in StatusInputs \ {"approved", "rejected"} :
          (Pending(q) /\ SetStatus(q, st)) =>
              /\ res'.status = 400
              /\ accessRequests'[q].status = accessRequests[q].status
              /\ accessRequests'[q].updatedAt = accessRequests[q].updatedAt]_vars

\* C20: with the mint requests of several callers interleaved at the awaits
\* of the handler, there is never more than one ownership for a (courseId,
\* ownerId): of two requests for the same pair at most one inserts.
C20_MintAtomic ==
    \A i, j \in DOMAIN ownerships :
        (ownerships[i].courseId = ownerships[j].courseId
           /\ ownerships[i].ownerId = ownerships[j].ownerId) => i = j

\* C21: an access check that runs while ownerships are minted and grants made and
\* revoked between its awaits answers what it would answer on one of the states
\* of the store that existed between its arrival and its response
C21_ConsistentSnapshot ==
    [][\A p \in Callers :
          (calls[p].pc \in CheckPcs /\ calls'[p].pc = "idle") => res' \in observed[p]]_vars

\* C22: a share whose expiresAt is not later than the clock creates no grant: every
\* grant is created with an expiresAt later than the clock of its creation
C22_NoExpiredGrantCreated ==
    [][\/ Len(temporaryAccesses') <= Len(temporaryAccesses)
       \/ temporaryAccesses'[Len(temporaryAccesses')].expiresAt > now]_vars

\* C23: the wallet address of every stored user is in lowercase, whichever handler
\* wrote it: registration, wallet connection or profile update
C23_StoredWalletLowercase ==
    \A u \in DOMAIN users :
        users[u].walletAddress # Null => users[u].walletAddress = ToLowerCase(users[u].walletAddress)

\* C24: a share that names an ownership that does not exist is answered "NFT
\* ownership not found" and creates no grant; the ownershipId of every stored
\* grant is the id of a stored ownership
C24_GrantOnExistingOwnership ==
    /\ [](\A i \in DOMAIN temporaryAccesses :
             temporaryAccesses[i].ownershipId \in DOMAIN ownerships)
    /\ [][\A k \in OwnershipIds :
             k \notin DOMAIN ownerships =>
                \A r \in Addresses, e \in ExpiryInputs :
                    Share(k, r, e) =>
                        /\ res' = Response(404, "NFT ownership not found")
                        /\ UNCHANGED temporaryAccesses]_vars

\* a share has just been refused for its unknown ownership while a grant is stored
C24_Witness ==
    /\ res = Response(404, "NFT ownership not found")
    /\ Len(temporaryAccesses) > 0

\* C25: the rejection of a pending request changes the status and the updatedAt of
\* that request and nothing else: its other fields, the other requests, the
\* grants, the ownerships and the users stay, and the access check of the
\* requester answers after the rejection what it answered before
C25_RejectionFrame ==
    [][\A q \in WorkflowRequestIds :
          (Pending(q) /\ SetStatus(q, "rejected")) =>
             /\ UNCHANGED <<users, courses, ownerships, temporaryAccesses>>
             /\ DOMAIN accessRequests' = DOMAIN accessRequests
             /\ \A o \in DOMAIN accessRequests : o # q => accessRequests'[o] = accessRequests[o]
             /\ accessRequests'[q].status = "rejected"
             /\ [accessRequests'[q] EXCEPT !.status = "pending", !.updatedAt = 0]
                   = [accessRequests[q] EXCEPT !.updatedAt = 0]
             /\ \A c \in CourseIds :
                   checkAccess(c, accessRequests[q].requesterAddress)'
                      = checkAccess(c, accessRequests[q].requesterAddress)]_vars

\* a request has just been rejected while the other request is approved and its
\* grant stored
C25_Witness ==
    /\ res = Response(200, "request")
    /\ Len(temporaryAccesses) > 0
    /\ \E q, o \in DOMAIN accessRequests :
          /\ accessRequests[q].status = "rejected"
          /\ accessRequests[o].status = "approved"

C27_OwnershipPermanent ==
    [][/\ Len(ownerships') >= Len(ownerships)
       /\ \A k \in DOMAIN ownerships : ownerships'[k] = ownerships[k]
       /\ \A c \in CourseIds, w \in Addresses :
             LET user == getUserByWalletAddress(w)
             IN  (/\ checkAccess(c, w) = Response(200, "owner")
                  /\ users'[user].walletAddress = users[user].walletAddress)
                     => checkAccess(c, w)' = Response(200, "owner")]_vars

\* C28: the access check is sound: it gives access to course c for wallet w only
\* when the user registered for w holds an ownership of c, or a grant whose
\* recipient is w ignoring case, with isActive set and expiresAt later than the
\* clock, is made on an ownership of c; a grant on an ownership of another
\* course gives no access to c
C28_CheckAccessSound ==
    \A c \in CatalogIds, w \in Addresses :
        checkAccess(c, w).body # "noAccess" =>
            \/ \E u \in DOMAIN users : RegisteredUser(u, w) /\ Owns(u, c)
            \/ \E i \in DOMAIN temporaryAccesses :
                  /\ ToLowerCase(temporaryAccesses[i].recipientAddress) = ToLowerCase(w)
                  /\ temporaryAccesses[i].isActive
                  /\ temporaryAccesses[i].expiresAt > now
                  /\ temporaryAccesses[i].ownershipId \in DOMAIN ownerships
                  /\ ownerships[temporaryAccesses[i].ownershipId].courseId = c

\* an access check has just refused a wallet for course 2, which has an
\* ownership, while the wallet holds a live grant on course 1
C28_Witness ==
    /\ res = Response(200, "noAccess")
    /\ \E k \in DOMAIN ownerships : ownerships[k].courseId = 2
    /\ \E w \in Addresses :
          /\ checkAccess(1, w) = Response(200, "temporary")
          /\ checkAccess(2, w) = Response(200, "noAccess")

\* C29: the approval of a pending request whose ownerAddress is the address of no
\* user is answered "Owner user not found" and creates no grant, and the stored
\* status of the request is "approved" all the same
C29_OwnerMissingKeepsApproval ==
    [][\A q \in WorkflowRequestIds :
          (/\ Pending(q)
           /\ getUserByWalletAddress(accessRequests[q].ownerAddress) = 0
           /\ SetStatus(q, "approved")) =>
             /\ res' = Response(404, "Owner user not found")
             /\ UNCHANGED temporaryAccesses
             /\ accessRequests'[q].status = "approved"]_vars

\* an approval has just been answered "Owner user not found" for a request whose
\* course has an ownership
C29_Witness ==
    /\ res = Response(404, "Owner user not found")
    /\ \E q \in DOMAIN accessRequests :
          /\ accessRequests[q].status = "approved"
          /\ getUserByWalletAddress(accessRequests[q].ownerAddress) = 0
          /\ \E k \in DOMAIN ownerships : ownerships[k].courseId = accessRequests[q].courseId

\* C30: the duplicate lookup and the insertion of a share are one step for the
\* other requests that grant on the same pair, even when the handlers interleave
\* at the awaits: once every request is answered, a pair (ownershipId,
\* recipientAddress) has at most one grant that is active and not expired
C30_GrantAtomic ==
    (\A p \in Callers : calls[p].pc = "idle") =>
        \A i, j \in DOMAIN temporaryAccesses :
            (/\ temporaryAccesses[i].ownershipId = temporaryAccesses[j].ownershipId
             /\ temporaryAccesses[i].recipientAddress = temporaryAccesses[j].recipientAddress
             /\ Live(i)
             /\ Live(j)) => i = j

====
